---- MODULE Spec2Model ----
(***************************************************************************)
(* Variation engine of PromptSuite / MultiPromptify.                       *)
(*                                                                         *)
(* One run of generate_variations: template validation, per-field          *)
(* expansion, the row combinator with few-shot selection, and the global   *)
(* budget.  Text is a sequence of one-character strings, so that           *)
(* str.replace, str.strip and str.count are computed on characters.        *)
(***************************************************************************)
EXTENDS Integers, Sequences, FiniteSets, TLC

(***************************************************************************)
(* Bounds of the model.                                                    *)
(***************************************************************************)
MaxRows == 3
MaxBudget == 5
MaxPerField == 2
MaxCount == 3
MaxCalls == 2

\* the number of states of the process-wide generator in the model
RngStates == 6

(***************************************************************************)
(* Text helpers (Python str).                                              *)
(***************************************************************************)
NL == "\n"
Blank == <<>>
IsSpace(c) == c = " " \/ c = NL

RECURSIVE Concat(_)
Concat(ss) == IF ss = <<>> THEN <<>> ELSE Head(ss) \o Concat(Tail(ss))

RECURSIVE Join(_, _)
Join(sep, ss) ==
    IF ss = <<>> THEN <<>>
    ELSE IF Len(ss) = 1 THEN ss[1]
    ELSE ss[1] \o sep \o Join(sep, Tail(ss))

StartsWith(s, p) == Len(s) >= Len(p) /\ SubSeq(s, 1, Len(p)) = p

\* `old in s`
Contains(s, old) ==
    \E i \in 1..(Len(s) - Len(old) + 1) : SubSeq(s, i, i + Len(old) - 1) = old

\* s.replace(old, new): every non-overlapping occurrence, left to right.
RECURSIVE Replace(_, _, _)
Replace(s, old, new) ==
    IF Len(s) < Len(old) THEN s
    ELSE IF StartsWith(s, old)
         THEN new \o Replace(SubSeq(s, Len(old) + 1, Len(s)), old, new)
         ELSE <<s[1]>> \o Replace(Tail(s), old, new)

RECURSIVE LStrip(_)
LStrip(s) == IF s # <<>> /\ IsSpace(s[1]) THEN LStrip(Tail(s)) ELSE s

RECURSIVE RStrip(_)
RStrip(s) ==
    IF s # <<>> /\ IsSpace(s[Len(s)]) THEN RStrip(SubSeq(s, 1, Len(s) - 1)) ELSE s

\* s.strip()
Strip(s) == RStrip(LStrip(s))

\* s.count(c) for a one-character c
Count(s, c) == Cardinality({i \in 1..Len(s) : s[i] = c})

\* s.split(", ")
RECURSIVE SplitFrom(_, _)
SplitFrom(s, acc) ==
    IF s = <<>> THEN <<acc>>
    ELSE IF StartsWith(s, <<",", " ">>)
         THEN <<acc>> \o SplitFrom(SubSeq(s, 3, Len(s)), <<>>)
         ELSE SplitFrom(Tail(s), Append(acc, s[1]))

Split(s) == SplitFrom(s, <<>>)

Digits == <<"0", "1", "2", "3", "4", "5", "6", "7", "8", "9">>
IsDigit(c) == \E d \in 1..10 : Digits[d] = c
DigitVal(c) == (CHOOSE d \in 1..10 : Digits[d] = c) - 1

\* int(s) succeeds (ValueError otherwise); the model's integers have one digit
IsIntText(s) == Len(s) = 1 /\ IsDigit(s[1])
IntOf(s) == DigitVal(s[1])
\* str(n) for 0 <= n <= 9
StrOfInt(n) == <<Digits[n + 1]>>

Placeholder(name) == <<"{", name, "}">>

(***************************************************************************)
(* Data model.  A cell is a scalar text or a list of texts; a row maps     *)
(* column names to cells; the dataset keeps its columns in a fixed order   *)
(* and its row labels are the default 0, 1, 2, ... (label = position - 1). *)
(* The split labels "train" and "test" are atomic one-token texts.         *)
(***************************************************************************)
Scalar(t) == [list |-> FALSE, text |-> t, items |-> <<>>]
ListOf(its) == [list |-> TRUE, text |-> <<>>, items |-> its]

\* format_field_value: lists are joined by ", ", everything else is str(value)
format_field_value(value) ==
    IF value.list THEN Join(<<",", " ">>, value.items) ELSE value.text

\* FieldVariation(data, gold_update); gold_update is None or {field: value},
\* the value being an int (isInt) or a str, kept by its decimal / literal text.
NoUpdate == [has |-> FALSE, field |-> "", isInt |-> FALSE, text |-> <<>>]
Update(f, isInt, t) == [has |-> TRUE, field |-> f, isInt |-> isInt, text |-> t]
FieldVariation(d, gu) == [data |-> d, gold_update |-> gu]

\* GoldFieldConfig: field is None (has = FALSE) or a column name
NoGold == [has |-> FALSE, field |-> "", type |-> "value", options_field |-> ""]
GoldValue(f) == [has |-> TRUE, field |-> f, type |-> "value", options_field |-> ""]
GoldIndex(f, o) == [has |-> TRUE, field |-> f, type |-> "index", options_field |-> o]

\* TemplateField for few_shot: count, format, split
NoFewShot == [has |-> FALSE, count |-> 0, format |-> "", split |-> ""]
FewShot(c, f, s) == [has |-> TRUE, count |-> c, format |-> f, split |-> s]

\* Registry keys of the engine
VARIATION_TYPE_TO_AUGMENTER ==
    {"paraphrase", "surface", "context", "shuffle", "fewshot"}

SeqToSet(s) == {s[i] : i \in 1..Len(s)}

\* position of x in s (1-based), 0 when absent
IndexOf(s, x) ==
    IF \E i \in 1..Len(s) : s[i] = x
    THEN CHOOSE i \in 1..Len(s) : s[i] = x /\ \A j \in 1..(i - 1) : s[j] # x
    ELSE 0

\* unique elements in first-occurrence order (the seen-set loops)
RECURSIVE Dedup(_, _)
Dedup(s, acc) ==
    IF s = <<>> THEN acc
    ELSE Dedup(Tail(s),
               IF \E i \in 1..Len(acc) : acc[i] = Head(s) THEN acc
               ELSE Append(acc, Head(s)))

\* s[:n] for n >= 0
Take(s, n) == SubSeq(s, 1, IF n < Len(s) THEN n ELSE Len(s))

(***************************************************************************)
(* State of one engine object across its runs.                             *)
(***************************************************************************)
VARIABLES
    template,             \* the template document
    data,                 \* the dataset: [cols, rows]
    max_variations,       \* MultiPromptify.max_variations
    variations_per_field, \* generate_variations argument
    augOut,               \* what each augmenter class answers (fixed per run pair)
    pc,                   \* position in generate_variations
    row_idx,              \* position of the current row (label + 1)
    field_variations,     \* per-field variant lists of the current row
    combination,          \* position in the product list of the current row
    variations,           \* create_row_variations' local list
    all_variations,       \* generate_variations' accumulator
    output,               \* the returned list
    error,                \* the raised exception, if any
    augLog,               \* augmenter invocations of this run
    selections,           \* few-shot selections of this run
    built,                \* per built variation: the intermediate values
    run,                  \* 1 or 2
    first,                \* outcome of the first run
    rng,                  \* state of the process-wide generator (module random)
    process,              \* the running interpreter process: [id, seed]
    calls                 \* MultipleChoiceAugmenter.augment invocations so far

vars == <<template, data, max_variations, variations_per_field, augOut, pc,
          row_idx, field_variations, combination, variations, all_variations,
          output, error, augLog, selections, built, run, first,
          rng, process, calls>>

\* the process-wide generator and the record of who used it
generatorState == <<rng, process, calls>>

inputs == <<template, data, max_variations, variations_per_field, augOut>>

NoError == [kind |-> "none", requested |-> 0, available |-> 0, split |-> ""]
Raised(k) == [kind |-> k, requested |-> 0, available |-> 0, split |-> ""]
\* FewShotDataInsufficientError(count, len(available_data), split)
FewShotDataInsufficientError(c, n, sp) ==
    [kind |-> "FewShotDataInsufficientError", requested |-> c,
     available |-> n, split |-> sp]

(***************************************************************************)
(* Template validation.                                                    *)
(***************************************************************************)
\* FIELD_PATTERN \{([^}]+)\} finds a match: some "{" is followed by a
\* non-empty run of non-"}" characters and then "}".
HasFieldMatch(text) ==
    \E i \in 1..Len(text) : \E j \in (i + 2)..Len(text) :
        /\ text[i] = "{"
        /\ text[j] = "}"
        /\ \A k \in (i + 1)..(j - 1) : text[k] # "}"

validate_template(t) ==
    (IF Count(t.text, "{") # Count(t.text, "}")
        THEN {"Mismatched brackets in template"} ELSE {})
    \cup (IF ~HasFieldMatch(t.text) THEN {"Template contains no fields"} ELSE {})
    \cup (IF t.few_shot.has /\ t.few_shot.count <= 0
        THEN {"Few-shot count must be positive"} ELSE {})

(***************************************************************************)
(* Augmenters.  The text augmenters (surface, paraphrase, context) are     *)
(* external to the engine: augOut fixes, per class, whether a call raises  *)
(* and which suffixes it appends to its input (the empty suffix returns    *)
(* the input itself).                                                      *)
(***************************************************************************)
\* VARIATION_TYPE_TO_AUGMENTER.get(variation_type, TextSurfaceAugmenter)
AugmenterClass(variation_type) ==
    IF variation_type = "paraphrase" THEN "Paraphrase"
    ELSE IF variation_type = "context" THEN "ContextAugmenter"
    ELSE IF variation_type = "shuffle" THEN "ShuffleAugmenter"
    ELSE IF variation_type = "fewshot" THEN "FewShotAugmenter"
    ELSE "TextSurfaceAugmenter"

Raises == [raises |-> TRUE, out |-> <<>>]
Returns(l) == [raises |-> FALSE, out |-> l]

\* augmenter.augment(text) of a text augmenter
TextAugment(cls, text) ==
    LET o == IF cls = "TextSurfaceAugmenter" THEN augOut.surface
             ELSE augOut.paraphrase
    IN  IF cls = "FewShotAugmenter" THEN Returns(<<>>)
        ELSE IF cls = "ShuffleAugmenter" THEN Raises
        ELSE IF o.raises THEN Raises
        ELSE Returns([i \in 1..Len(o.sufs) |-> text \o o.sufs[i]])

\* a permutation of 1..n named by its code
PermOf(code, n) ==
    [i \in 1..n |->
        IF code = "rot1" THEN (i % n) + 1
        ELSE IF code = "rot2" THEN ((i + 1) % n) + 1
        ELSE IF code = "swap" /\ n >= 2
             THEN (IF i = 1 THEN 2 ELSE IF i = 2 THEN 1 ELSE i)
        ELSE i]

\* ShuffleAugmenter.augment(text, {gold_field, gold_value}): the option list is
\* permuted and each permutation is paired with the new index of the gold.
ShuffleAugment(text, gold_value, n_augments) ==
    LET opts == Split(text)
        n == Len(opts)
        g == IF IsIntText(gold_value) /\ IntOf(gold_value) < n
             THEN IntOf(gold_value) + 1
             ELSE IndexOf(opts, gold_value)
        codes == Take(augOut.shuffle, n_augments)
    IN  IF g = 0 THEN Raises
        ELSE Returns([k \in 1..Len(codes) |->
                LET p == PermOf(codes[k], n)
                IN  [shuffled_data |-> Join(<<",", " ">>, [i \in 1..n |-> opts[p[i]]]),
                     new_gold_index |-> IndexOf(p, g) - 1]])

(***************************************************************************)
(* Field expander.                                                         *)
(***************************************************************************)
\* str(value)
PyStr(value) ==
    IF value.list
    THEN <<"[">> \o Join(<<",", " ">>,
                         [i \in 1..Len(value.items) |->
                             <<"'">> \o value.items[i] \o <<"'">>]) \o <<"]">>
    ELSE value.text

\* FieldAugmentationData.has_gold_field
has_gold_field(gold_config, cols) ==
    gold_config.has /\ gold_config.field \in SeqToSet(cols)

\* extract_gold_value for a plain column name
extract_gold_value(row, cols, gold_field) ==
    IF gold_field \in SeqToSet(cols)
    THEN [ok |-> TRUE, value |-> row[gold_field]]
    ELSE [ok |-> FALSE, value |-> Scalar(<<>>)]

Invocation(label, field_name, variation_type) ==
    [row |-> label, field |-> field_name, name |-> variation_type,
     class |-> AugmenterClass(variation_type)]

\* `if variation_data not in all_variations: all_variations.append(...)`
RECURSIVE AppendNew(_, _)
AppendNew(all, new) ==
    IF new = <<>> THEN all
    ELSE AppendNew(IF \E i \in 1..Len(all) : all[i] = Head(new) THEN all
                   ELSE Append(all, Head(new)),
                   Tail(new))

\* faulty variant: the shuffle branch without its two `continue` guards
ShuffleBranchUnguarded(acc, label, field_name, field_value, row, cols, gold_config, n) ==
    LET g == extract_gold_value(row, cols, gold_config.field)
        gold_value == IF ~g.value.list /\ IsIntText(g.value.text)
                      THEN StrOfInt(IntOf(g.value.text))
                      ELSE PyStr(g.value)
        r == ShuffleAugment(field_value, gold_value, n)
        called == [acc EXCEPT !.log =
                      Append(@, Invocation(label, field_name, "shuffle"))]
    IN  IF r.raises THEN called
        ELSE [called EXCEPT !.vars =
                AppendNew(@, [i \in 1..Len(r.out) |->
                    FieldVariation(r.out[i].shuffled_data,
                        Update(gold_config.field, TRUE,
                               StrOfInt(r.out[i].new_gold_index)))])]

\* the shuffle branch of the loop body
ShuffleBranch(acc, label, field_name, field_value, row, cols, gold_config, n) ==
    IF ~has_gold_field(gold_config, cols) THEN acc
    ELSE
      LET g == extract_gold_value(row, cols, gold_config.field)
          isIndex == gold_config.type = "index"
          badInt == isIndex /\ (g.value.list \/ ~IsIntText(g.value.text))
          gold_value == IF isIndex THEN StrOfInt(IntOf(g.value.text))
                        ELSE PyStr(g.value)
          r == ShuffleAugment(field_value, gold_value, n)
          called == [acc EXCEPT !.log =
                        Append(@, Invocation(label, field_name, "shuffle"))]
      IN  IF ~g.ok \/ badInt THEN acc
          ELSE IF r.raises THEN called
          ELSE [called EXCEPT !.vars =
                  AppendNew(@, [i \in 1..Len(r.out) |->
                      FieldVariation(r.out[i].shuffled_data,
                          Update(gold_config.field, TRUE,
                                 StrOfInt(r.out[i].new_gold_index)))])]

\* the regular branch of the loop body
RegularBranch(acc, label, field_name, field_value, variation_type) ==
    LET r == TextAugment(AugmenterClass(variation_type), field_value)
        called == [acc EXCEPT !.log =
                      Append(@, Invocation(label, field_name, variation_type))]
    IN  IF r.raises THEN called
        ELSE [called EXCEPT !.vars =
                AppendNew(@, [i \in 1..Len(r.out) |->
                                 FieldVariation(r.out[i], NoUpdate)])]

RECURSIVE FieldLoop(_, _, _, _, _, _, _, _, _)
FieldLoop(acc, types, label, field_name, field_value, row, cols, gold_config, n) ==
    IF types = <<>> THEN acc
    ELSE FieldLoop(
           IF Head(types) = "shuffle"
           THEN ShuffleBranch(acc, label, field_name, field_value, row, cols,
                              gold_config, n)
           ELSE RegularBranch(acc, label, field_name, field_value, Head(types)),
           Tail(types), label, field_name, field_value, row, cols, gold_config, n)

\* faulty variant: the deduplicated list is returned without the final slice
generate_field_variationsUntruncated(label, field_name, field_value, types, row, cols, gold_config, n) ==
    LET done == FieldLoop([vars |-> <<FieldVariation(field_value,
                               IF gold_config.has /\ gold_config.field = field_name
                               THEN Update(field_name, FALSE, field_value)
                               ELSE NoUpdate)>>,
                           log |-> <<>>],
                          types, label, field_name, field_value, row, cols,
                          gold_config, n)
    IN  [vars |-> Dedup(done.vars, <<>>), log |-> done.log]

\* VariationGenerator.generate_field_variations
generate_field_variations(label, field_name, field_value, types, row, cols, gold_config, n) ==
    LET original_formatted == field_value
        original_gold_update ==
            IF gold_config.has /\ gold_config.field = field_name
            THEN Update(field_name, FALSE, original_formatted)
            ELSE NoUpdate
        start == [vars |-> <<FieldVariation(original_formatted, original_gold_update)>>,
                  log |-> <<>>]
        done == FieldLoop(start, types, label, field_name, field_value, row,
                          cols, gold_config, n)
    IN  [vars |-> Take(Dedup(done.vars, <<>>), n), log |-> done.log]

\* faulty variant: a failing augmenter ends the loop (`break` for `continue`)
RECURSIVE InstructionLoopBreak(_, _, _, _, _)
InstructionLoopBreak(acc, types, label, instruction_template, n) ==
    IF types = <<>> THEN acc
    ELSE LET r == TextAugment(AugmenterClass(Head(types)), instruction_template)
             called == [acc EXCEPT !.log =
                          Append(@, Invocation(label, "instruction", Head(types)))]
         IN  IF r.raises THEN called
             ELSE InstructionLoopBreak(
                    [called EXCEPT !.vars = @ \o Take(r.out, n)],
                    Tail(types), label, instruction_template, n)

\* the loop over the instruction's variation types
RECURSIVE InstructionLoop(_, _, _, _, _)
InstructionLoop(acc, types, label, instruction_template, n) ==
    IF types = <<>> THEN acc
    ELSE LET r == TextAugment(AugmenterClass(Head(types)), instruction_template)
             called == [acc EXCEPT !.log =
                          Append(@, Invocation(label, "instruction", Head(types)))]
         IN  InstructionLoop(
                IF r.raises THEN called
                ELSE [called EXCEPT !.vars = @ \o Take(r.out, n)],
                Tail(types), label, instruction_template, n)

\* faulty variant: the original is inserted without the membership test
generate_instruction_variationsAlwaysInsert(label, instruction_template, types, n) ==
    LET done == InstructionLoop([vars |-> <<>>, log |-> <<>>], types, label,
                                instruction_template, n)
        unique_variations == Dedup(done.vars, <<>>)
    IN  [vars |-> Take(<<instruction_template>> \o unique_variations, n + 1),
         log |-> done.log]

\* VariationGenerator.generate_instruction_variations
generate_instruction_variations(label, instruction_template, types, n) ==
    LET done == InstructionLoop([vars |-> <<>>, log |-> <<>>], types, label,
                                instruction_template, n)
        unique_variations == Dedup(done.vars, <<>>)
        with_original ==
            IF \E i \in 1..Len(unique_variations) :
                   unique_variations[i] = instruction_template
            THEN unique_variations
            ELSE <<instruction_template>> \o unique_variations
    IN  [vars |-> Take(with_original, n + 1), log |-> done.log]

\* entry of an ordered mapping (Python dict) kept as a sequence of pairs
Pair(k, v) == [name |-> k, value |-> v]
Keys(m) == [i \in 1..Len(m) |-> m[i].name]
HasKey(m, k) == \E i \in 1..Len(m) : m[i].name = k
Get(m, k) == m[CHOOSE i \in 1..Len(m) : m[i].name = k].value

RECURSIVE FieldsLoop(_, _, _, _, _, _, _)
FieldsLoop(acc, entries, label, row, cols, gold_config, n) ==
    IF entries = <<>> THEN acc
    ELSE LET e == Head(entries)
             r == generate_field_variations(label, e.name,
                      format_field_value(row[e.name]), e.value, row, cols,
                      gold_config, n)
             next ==
                IF e.name = "instruction" THEN acc
                ELSE IF e.name \in SeqToSet(cols)
                THEN [fv |-> Append(acc.fv, Pair(e.name, r.vars)),
                      log |-> acc.log \o r.log]
                ELSE [fv |-> Append(acc.fv,
                                Pair(e.name, <<FieldVariation(<<>>, NoUpdate)>>)),
                      log |-> acc.log]
         IN  FieldsLoop(next, Tail(entries), label, row, cols, gold_config, n)

\* VariationGenerator.generate_all_field_variations
generate_all_field_variations(instruction_template, variation_fields, label, row, cols, gold_config, n) ==
    LET instr ==
            IF HasKey(variation_fields, "instruction")
               /\ Get(variation_fields, "instruction") # <<>>
            THEN LET r == generate_instruction_variations(label,
                              instruction_template,
                              Get(variation_fields, "instruction"), n)
                 IN  [fv |-> <<Pair("instruction",
                                 [i \in 1..Len(r.vars) |->
                                     FieldVariation(r.vars[i], NoUpdate)])>>,
                      log |-> r.log]
            ELSE [fv |-> <<Pair("instruction",
                            <<FieldVariation(instruction_template, NoUpdate)>>)>>,
                  log |-> <<>>]
    IN  FieldsLoop(instr, variation_fields, label, row, cols, gold_config, n)

(***************************************************************************)
(* Prompt builder.                                                         *)
(***************************************************************************)
RECURSIVE FillLoop(_, _)
FillLoop(result, values) ==
    IF values = <<>> THEN result
    ELSE FillLoop(Replace(result, Placeholder(Head(values).name),
                          Head(values).value),
                  Tail(values))

\* PromptBuilder.fill_template_placeholders
fill_template_placeholders(text, values) ==
    IF text = <<>> THEN <<>> ELSE FillLoop(text, values)

(***************************************************************************)
(* Few-shot selector.                                                      *)
(***************************************************************************)
HasSplitColumn == "split" \in SeqToSet(data.cols)

RECURSIVE KeepSeq(_, _)
KeepSeq(s, keep) ==
    IF s = <<>> THEN <<>>
    ELSE (IF Head(s) \in keep THEN <<Head(s)>> ELSE <<>>)
         \o KeepSeq(Tail(s), keep)

AllPositions == [i \in 1..Len(data.rows) |-> i]

\* data[data.get('split', 'train') == split]: positions of the kept rows
FilterBySplit(split) ==
    KeepSeq(AllPositions,
              {i \in 1..Len(data.rows) : data.rows[i]["split"].text = <<split>>})

\* DataFrame.sample(n, random_state=seed): the first n positions of the
\* permutation of 1..len that the generator seeded with `seed` produces
RandPerm(len, seed) == [i \in 1..len |-> ((i + seed) % len) + 1]
Sample(pool, n, seed) ==
    LET p == RandPerm(Len(pool), seed) IN [i \in 1..n |-> pool[p[i]]]

\* faulty variant: an unseeded draw, which differs from one run to the next
SelectionSeedUnseeded(current_row_idx, variation_count) ==
    current_row_idx + run

\* identification_data.get('selection_seed' / 'order_seed', current_row_idx)
SelectionSeed(current_row_idx, variation_count) == current_row_idx

FIXED_SEED == 42

\* faulty variant: the shared sample is seeded by the row and the ordinal
SharedSeedPerVariation(current_row_idx, variation_count) ==
    current_row_idx + variation_count

\* random_state of shared_ordered_random_n
SharedSeed(current_row_idx, variation_count) == FIXED_SEED

\* faulty variant: the current row stays in the pool
DropCurrentNot(pool, current_row_idx) == pool

\* available_data.drop(current_row_idx, errors='ignore')
DropCurrent(pool, current_row_idx) ==
    KeepSeq(pool, SeqToSet(pool) \ {current_row_idx + 1})

\* faulty variant: the comparison off by one
InsufficientOffByOne(available, count) == available <= count

\* `if len(available_data) < count`
Insufficient(available, count) == available < count

\* faulty variant: the rows themselves are drawn with the order seed
UnorderedSampleReseeded(available_data, count, order_seed) ==
    Sample(available_data, count, order_seed)

\* available_data.sample(n=count, random_state=42)
\*               .sample(frac=1.0, random_state=order_seed)
UnorderedSample(available_data, count, order_seed) ==
    Sample(Sample(available_data, count, FIXED_SEED), count, order_seed)

\* rows chosen by generate_few_shot_examples_structured, as positions
SelectRows(few_shot_field, label, variation_count) ==
    LET count == IF few_shot_field.count = 0 THEN 2 ELSE few_shot_field.count
        few_shot_format == few_shot_field.format
        split == few_shot_field.split
        filtered == IF split = "train" \/ split = "test"
                    THEN FilterBySplit(split) ELSE AllPositions
        available_data == DropCurrent(filtered, label)
        seed == SelectionSeed(label, variation_count)
    IN  IF split \in {"train", "test"} /\ ~HasSplitColumn
        THEN [error |-> Raised("KeyError"), rows |-> <<>>, seed |-> 0, pool |-> 0]
        ELSE IF Insufficient(Len(available_data), count)
        THEN [error |-> FewShotDataInsufficientError(count, Len(available_data), split),
              rows |-> <<>>, seed |-> 0, pool |-> Len(available_data)]
        ELSE [error |-> NoError,
              pool |-> Len(available_data),
              seed |-> IF few_shot_format \in {"shared_unordered_random_n",
                                               "random_per_row"}
                       THEN seed
                       ELSE IF few_shot_format = "shared_ordered_random_n"
                       THEN SharedSeed(label, variation_count) ELSE 0,
              rows |->
                IF few_shot_format = "shared_ordered_random_n"
                THEN Sample(available_data, count,
                            SharedSeed(label, variation_count))
                ELSE IF few_shot_format = "shared_unordered_random_n"
                THEN UnorderedSample(available_data, count, seed)
                ELSE IF few_shot_format = "random_per_row"
                THEN Sample(available_data, count, seed)
                ELSE Take(available_data, count)]

\* convert_index_to_value: the option text for an index gold, else the value
convert_index_to_value(row, cols, gold_config) ==
    LET cell == row[gold_config.field]
        hasOptions == gold_config.type = "index"
                      /\ gold_config.options_field \in SeqToSet(cols)
        opts == IF row[gold_config.options_field].list
                THEN row[gold_config.options_field].items
                ELSE Split(row[gold_config.options_field].text)
    IN  IF hasOptions /\ ~cell.list /\ IsIntText(cell.text)
           /\ IntOf(cell.text) < Len(opts)
        THEN opts[IntOf(cell.text) + 1]
        ELSE format_field_value(cell)

RECURSIVE InputValues(_, _, _)
InputValues(cols, row, gold_config) ==
    IF cols = <<>> THEN <<>>
    ELSE (IF gold_config.has /\ Head(cols) = gold_config.field THEN <<>>
          ELSE <<Pair(Head(cols), format_field_value(row[Head(cols)]))>>)
         \o InputValues(Tail(cols), row, gold_config)

\* one {input, output} pair; input = <<>> means the pair is not appended
RenderExample(prompt_format_variant, pos, gold_config) ==
    LET row == data.rows[pos]
        output_value ==
            IF gold_config.has /\ gold_config.field \in SeqToSet(data.cols)
            THEN convert_index_to_value(row, data.cols, gold_config)
            ELSE <<>>
        input_template ==
            IF gold_config.has
            THEN Strip(Replace(prompt_format_variant,
                               Placeholder(gold_config.field), <<>>))
            ELSE prompt_format_variant
    IN  [input |-> fill_template_placeholders(input_template,
                       InputValues(data.cols, row, gold_config)),
         output |-> output_value,
         row |-> pos - 1]

\* faulty variant: every rendered example is appended
NonEmptyInputsKeepAll(examples) == examples
\* `if input_text:` around examples.append
RECURSIVE NonEmptyInputs(_)
NonEmptyInputs(examples) ==
    IF examples = <<>> THEN <<>>
    ELSE (IF Head(examples).input # <<>> THEN <<Head(examples)>> ELSE <<>>)
         \o NonEmptyInputs(Tail(examples))

\* FewShotAugmenter.augment via FewShotHandler._generate_few_shot_examples
generate_few_shot_examples(few_shot_field, instruction_variant, label, variation_count, gold_config) ==
    LET sel == SelectRows(few_shot_field, label, variation_count)
    IN  IF ~few_shot_field.has
        THEN [error |-> NoError, examples |-> <<>>, sel |-> sel]
        ELSE IF ~gold_config.has
        THEN [error |-> Raised("FewShotGoldFieldMissingError"),
              examples |-> <<>>, sel |-> sel]
        ELSE [error |-> sel.error,
              examples |-> NonEmptyInputs(
                  [i \in 1..Len(sel.rows) |->
                      RenderExample(instruction_variant, sel.rows[i], gold_config)]),
              sel |-> sel]

\* FewShotAugmenter.format_few_shot_as_string
format_few_shot_as_string(examples) ==
    Join(<<NL, NL>>,
         [i \in 1..Len(examples) |->
             examples[i].input \o <<NL>> \o examples[i].output])

(***************************************************************************)
(* Row combinator.                                                         *)
(***************************************************************************)
\* faulty variant: the first field varies fastest
RECURSIVE ProductFirstFastest(_)
ProductFirstFastest(lens) ==
    IF lens = <<>> THEN << <<>> >>
    ELSE LET rest == ProductFirstFastest(Tail(lens))
         IN  Concat([j \in 1..Len(rest) |->
                        [i \in 1..Head(lens) |-> <<i>> \o rest[j]]])

\* list(itertools.product(*lists)), each tuple given by its positions
RECURSIVE Product(_)
Product(lens) ==
    IF lens = <<>> THEN << <<>> >>
    ELSE LET rest == Product(Tail(lens))
         IN  Concat([i \in 1..Head(lens) |->
                        [j \in 1..Len(rest) |-> <<i>> \o rest[j]]])

Combinations(fv) == Product([i \in 1..Len(fv) |-> Len(fv[i].value)])

\* dict(zip(varying_fields, combination))
FieldValues(fv, combo) ==
    [i \in 1..Len(fv) |-> Pair(fv[i].name, fv[i].value[combo[i]])]

\* FewShotHandler._extract_row_values_and_updates
RECURSIVE ExtractLoop(_, _, _, _, _)
ExtractLoop(acc, cols, row, field_values, gold_config) ==
    IF cols = <<>> THEN acc
    ELSE LET col == Head(cols)
             next ==
               IF HasKey(field_values, col)
               THEN LET field_data == Get(field_values, col)
                    IN  [row_values |-> Append(acc.row_values,
                                               Pair(col, field_data.data)),
                         gold_updates |-> IF field_data.gold_update.has
                                          THEN field_data.gold_update
                                          ELSE acc.gold_updates]
               ELSE IF gold_config.has /\ col = gold_config.field THEN acc
               ELSE [acc EXCEPT !.row_values =
                        Append(@, Pair(col, format_field_value(row[col])))]
         IN  ExtractLoop(next, Tail(cols), row, field_values, gold_config)

extract_row_values_and_updates(row, cols, field_values, gold_config) ==
    ExtractLoop([row_values |-> <<>>, gold_updates |-> NoUpdate],
                cols, row, field_values, gold_config)

\* FewShotHandler._create_main_input
create_main_input(instruction_variant, row_values, gold_config) ==
    LET filled == fill_template_placeholders(instruction_variant, row_values)
    IN  Strip(IF gold_config.has
              THEN Replace(filled, Placeholder(gold_config.field), <<>>)
              ELSE filled)

Message(role, content) == [role |-> role, content |-> content]

\* faulty variant: the final user message is appended without its guard
format_conversationUnguarded(examples, main_input) ==
    Concat([i \in 1..Len(examples) |->
               <<Message("user", examples[i].input),
                 Message("assistant", examples[i].output)>>])
    \o <<Message("user", main_input)>>

\* FewShotHandler._format_conversation
format_conversation(examples, main_input) ==
    Concat([i \in 1..Len(examples) |->
               <<Message("user", examples[i].input),
                 Message("assistant", examples[i].output)>>])
    \o (IF main_input # <<>> THEN <<Message("user", main_input)>> ELSE <<>>)

\* FewShotHandler._format_final_prompt
format_final_prompt(examples, main_input) ==
    Join(<<NL, NL>>,
         (IF examples # <<>> THEN <<format_few_shot_as_string(examples)>> ELSE <<>>)
         \o (IF main_input # <<>> THEN <<main_input>> ELSE <<>>))

\* FewShotHandler._build_single_variation
build_single_variation(combo, fv, label, variation_count) ==
    LET field_values == FieldValues(fv, combo)
        instruction_variant == Get(field_values, "instruction").data
        ex == extract_row_values_and_updates(data.rows[label + 1], data.cols,
                                             field_values, template.gold)
        fs == generate_few_shot_examples(template.few_shot, instruction_variant,
                                         label, variation_count, template.gold)
        main_input == create_main_input(instruction_variant, ex.row_values,
                                        template.gold)
    IN  [error |-> fs.error,
         sel |-> fs.sel,
         variation |->
           [prompt |-> format_final_prompt(fs.examples, main_input),
            conversation |-> format_conversation(fs.examples, main_input),
            original_row_index |-> label,
            variation_count |-> variation_count,
            field_values |-> [i \in 1..Len(field_values) |->
                                 Pair(field_values[i].name,
                                      field_values[i].value.data)],
            gold_updates |-> ex.gold_updates],
         ghost |->
           [row |-> label,
            row_values |-> ex.row_values,
            main_input |-> main_input,
            combination |-> combo,
            lens |-> [i \in 1..Len(fv) |-> Len(fv[i].value)],
            chosen |-> [i \in 1..Len(field_values) |->
                          Pair(field_values[i].name, field_values[i].value)],
            examples |-> fs.examples]]

(***************************************************************************)
(* Inputs.                                                                 *)
(***************************************************************************)
QText == <<"u", "v", "w", "t", "r">>
Options == <<<<"x">>, <<"y">>, <<"z">>>>

Cell(i, c, goldKind, splitKind) ==
    IF c = "q" THEN Scalar(<<QText[i]>>)
    ELSE IF c = "o" THEN ListOf(Options)
    ELSE IF c = "a"
         THEN (IF goldKind = "int" THEN Scalar(StrOfInt((i + 1) % 3))
               ELSE Scalar(<<"y">>))
    ELSE Scalar(<<IF (splitKind = "mixed" /\ i = 2)
                     \/ (splitKind = "tests_first" /\ i <= 2)
                  THEN "test" ELSE "train">>)

Dataset(n, cols, goldKind, splitKind) ==
    LET full == IF splitKind = "none" THEN cols ELSE Append(cols, "split")
    IN  [cols |-> full,
         rows |-> [i \in 1..n |->
                     [c \in SeqToSet(full) |-> Cell(i, c, goldKind, splitKind)]]]

ColumnOrders == {<<"q", "o", "a">>, <<"q", "a", "o">>, <<"q", "o">>}

T_qa == <<"{", "q", "}", " ", "{", "a", "}">>
T_qoa == <<"{", "q", "}", " ", "{", "o", "}", " ", "{", "a", "}">>
T_a == <<"{", "a", "}">>
T_open == <<"{", "q">>
T_plain == <<"q">>
T_swapped == <<"}", "{", "q", "}", "{">>

Template(text, vf, gold, fs) ==
    [text |-> text, variation_fields |-> vf, gold |-> gold, few_shot |-> fs]

V_none == <<>>
V_shuffle == <<Pair("o", <<"shuffle">>)>>
V_shuffle_gold == <<Pair("o", <<"shuffle">>), Pair("a", <<"surface">>)>>
V_text == <<Pair("instruction", <<"paraphrase">>), Pair("q", <<"surface">>)>>
V_unknown == <<Pair("q", <<"bogus">>)>>
V_q == <<Pair("q", <<"surface">>)>>
V_instr == <<Pair("instruction", <<"surface">>)>>
V_o == <<Pair("o", <<"surface">>)>>
V_two ==
    <<Pair("instruction", <<"paraphrase", "surface">>),
      Pair("q", <<"paraphrase", "surface">>)>>

Golds == {NoGold, GoldValue("a"), GoldIndex("a", "o")}

FewShotFormats ==
    {"shared_ordered_first_n", "shared_ordered_random_n",
     "shared_unordered_random_n", "random_per_row", "rotating"}

FewShots ==
    {FewShot(c, f, s) : c \in 1..MaxCount, f \in FewShotFormats,
                        s \in {"all", "train", "test"}}

e == <<>>
SurfaceOutcomes ==
    {[raises |-> TRUE, sufs |-> <<>>]}
    \cup {[raises |-> FALSE, sufs |-> l] :
            l \in {<<>>, <<e>>, <<e, <<"1">>>>, <<<<"1">>, <<"2">>>>,
                   <<<<"1">>, e, <<"1">>>>}}
ParaphraseOutcomes ==
    {[raises |-> TRUE, sufs |-> <<>>], [raises |-> FALSE, sufs |-> <<<<"1">>>>]}
ShuffleOutcomes == {<<"rot1">>, <<"swap", "rot2">>, <<"id", "rot1">>}

DefaultSurface == [raises |-> FALSE, sufs |-> <<e>>]
DefaultParaphrase == [raises |-> TRUE, sufs |-> <<>>]
DefaultShuffle == <<"rot1">>

IntData == {Dataset(n, c, "int", "none") : n \in 1..MaxRows, c \in ColumnOrders}
TextGoldData == {Dataset(n, <<"q", "o", "a">>, "text", "none") : n \in 1..MaxRows}
PlainData == {Dataset(n, <<"q", "o", "a">>, "int", "none") : n \in 1..MaxRows}
SplitData ==
    {Dataset(n, <<"q", "o", "a">>, "int", sk) :
        n \in 1..MaxRows, sk \in {"none", "train", "mixed"}}
    \cup {Dataset(MaxRows, <<"q", "o", "a">>, "int", "tests_first")}

\* the dataset with an empty question cell in its second row
BlankQ(d) == [d EXCEPT !.rows[2]["q"] = Scalar(<<>>)]
BlankData ==
    {BlankQ(Dataset(n, <<"q", "o", "a">>, "int", "none")) : n \in 2..MaxRows}

\* the dataset whose first question cell is the text {o}, the placeholder
\* of the options column that follows it
BraceQ(d) == [d EXCEPT !.rows[1]["q"] = Scalar(<<"{", "o", "}">>)]
BraceData ==
    {BraceQ(Dataset(n, <<"q", "o", "a">>, "int", "none")) : n \in 1..2}

\* the dataset whose first question cell is the text {{a}a}: the gold
\* placeholder inside the two halves of another one
NestQ(d) ==
    [d EXCEPT !.rows[1]["q"] = Scalar(<<"{", "{", "a", "}", "a", "}">>)]
NestData ==
    {NestQ(Dataset(n, <<"q", "o", "a">>, "int", "none")) : n \in 1..2}

\* the datasets without the options column
NoOptionsData == {Dataset(n, <<"q", "a">>, "int", "none") : n \in 1..2}

Oracle(s, p, h) == [surface |-> s, paraphrase |-> p, shuffle |-> h]
DefaultOracle == Oracle(DefaultSurface, DefaultParaphrase, DefaultShuffle)
OneNew == [raises |-> FALSE, sufs |-> <<e, <<"1">>>>]

\* a scenario: a template, a dataset and what the augmenters answer
PlainScenarios ==
    {<<Template(T_qoa, V_none, g, NoFewShot), d, DefaultOracle>> :
        g \in Golds, d \in IntData}

ShuffleScenarios ==
    {<<Template(T_qoa, vf, g, NoFewShot), d, Oracle(OneNew, DefaultParaphrase, h)>> :
        vf \in {V_shuffle, V_shuffle_gold}, g \in Golds,
        d \in IntData \cup TextGoldData, h \in ShuffleOutcomes}

TextScenarios ==
    {<<Template(T_qoa, V_text, g, NoFewShot), d, Oracle(s, p, DefaultShuffle)>> :
        g \in {NoGold, GoldValue("a")}, d \in PlainData,
        s \in SurfaceOutcomes, p \in ParaphraseOutcomes}
    \cup
    {<<Template(T_qoa, V_unknown, g, NoFewShot), d,
       Oracle(s, DefaultParaphrase, DefaultShuffle)>> :
        g \in {NoGold, GoldValue("a")}, d \in PlainData, s \in SurfaceOutcomes}
    \cup
    {<<Template(T_qoa, V_instr, GoldValue("a"), NoFewShot), d,
       Oracle(s, DefaultParaphrase, DefaultShuffle)>> :
        d \in PlainData, s \in SurfaceOutcomes}
    \cup
    {<<Template(T_qoa, V_two, GoldValue("a"), NoFewShot), d,
       Oracle(s, p, DefaultShuffle)>> :
        d \in PlainData, s \in SurfaceOutcomes, p \in ParaphraseOutcomes}
    \cup
    {<<Template(T_qoa, V_q, GoldValue("a"), NoFewShot), d,
       Oracle(s, DefaultParaphrase, DefaultShuffle)>> :
        d \in BraceData, s \in {DefaultSurface, OneNew}}
    \cup
    {<<Template(T_qa, V_o, GoldValue("a"), NoFewShot), d,
       Oracle(OneNew, DefaultParaphrase, DefaultShuffle)>> : d \in PlainData}
    \cup
    {<<Template(T_qoa, vf, GoldValue("a"), NoFewShot), d,
       Oracle(OneNew, DefaultParaphrase, DefaultShuffle)>> :
        vf \in {V_none, V_o}, d \in NoOptionsData}
    \cup
    {<<Template(T_qa, V_none, GoldValue("a"), NoFewShot), d, DefaultOracle>> :
        d \in NestData}

MalformedScenarios ==
    {<<Template(x, V_q, GoldValue("a"), NoFewShot), d, DefaultOracle>> :
        x \in {T_open, T_plain, T_swapped}, d \in PlainData}

FewShotScenarios ==
    {<<Template(T_qa, vf, GoldValue("a"), fs), d,
       Oracle(OneNew, DefaultParaphrase, DefaultShuffle)>> :
        vf \in {V_none, V_q}, fs \in FewShots, d \in SplitData}
    \cup
    {<<Template(T_qa, V_none, GoldValue("a"),
                FewShot(c, "shared_ordered_first_n", "all")),
       d, DefaultOracle>> : c \in 1..2, d \in BlankData}
    \cup
    {<<Template(T_qa, V_none, NoGold, FewShot(1, "shared_ordered_first_n", "all")),
       d, DefaultOracle>> : d \in PlainData}
    \cup
    {<<Template(T_a, V_none, GoldValue("a"),
                FewShot(c, "shared_ordered_first_n", "all")),
       d, DefaultOracle>> : c \in 1..2, d \in PlainData}
    \cup
    {<<Template(T_qa, V_q, GoldValue("a"), FewShot(2, f, "all")),
       Dataset(MaxRows + 1, <<"q", "o", "a">>, "int", "none"),
       Oracle(OneNew, DefaultParaphrase, DefaultShuffle)>> :
        f \in {"shared_unordered_random_n", "random_per_row"}}

Scenarios ==
    PlainScenarios \cup ShuffleScenarios \cup TextScenarios
    \cup MalformedScenarios \cup FewShotScenarios

(***************************************************************************)
(* generate_variations, step by step.                                      *)
(***************************************************************************)
\* faulty variant: the error list is ignored
is_validAlways(errors) == TRUE

\* `return len(errors) == 0, errors`
is_valid(errors) == errors = {}

\* faulty variant: the final slice is missing
TruncateNot(all, max) == all

\* `return all_variations[:self.max_variations]`
Truncate(all, max) == Take(all, max)

NoOutcome == [output |-> <<>>, error |-> NoError, done |-> FALSE]

\* cli.py:124-126: random.seed(seed) puts the process-wide generator in the
\* state the seed determines
Seeded(seed) == seed % RngStates

\* the engine itself makes no draw on the process-wide generator
GeneratorIdle ==
    /\ process = [id |-> 1, seed |-> FIXED_SEED]
    /\ rng = Seeded(FIXED_SEED)
    /\ calls = <<>>

RunStart ==
    /\ pc = "validate"
    /\ row_idx = 0
    /\ field_variations = <<>>
    /\ combination = 0
    /\ variations = <<>>
    /\ all_variations = <<>>
    /\ output = <<>>
    /\ error = NoError
    /\ augLog = <<>>
    /\ selections = <<>>
    /\ built = <<>>

Init ==
    /\ \E sc \in Scenarios :
        /\ template = sc[1]
        /\ data = sc[2]
        /\ augOut = sc[3]
        /\ variations_per_field \in
              IF sc[1].variation_fields = <<>> THEN {1} ELSE 1..MaxPerField
    /\ max_variations \in 0..MaxBudget
    /\ run = 1
    /\ first = NoOutcome
    /\ RunStart
    /\ GeneratorIdle

rowState == <<row_idx, field_variations, combination, variations,
              all_variations, augLog, selections, built>>

\* engine.py:73-76
Validate ==
    /\ pc = "validate"
    /\ IF ~is_valid(validate_template(template))
       THEN pc' = "failed" /\ error' = Raised("ValueError: Invalid template")
       ELSE pc' = "setup" /\ error' = error
    /\ UNCHANGED <<inputs, generatorState, rowState, output, run, first>>

\* faulty variant: the gold requirement is never enforced
validate_gold_field_requirementSkipped(few_shot_field, gold_config) == FALSE

\* MultiPromptify._validate_gold_field_requirement raises
validate_gold_field_requirement(few_shot_field, gold_config) ==
    few_shot_field.has /\ ~gold_config.has

\* engine.py:82-106
Setup ==
    /\ pc = "setup"
    /\ IF template.text = <<>>
       THEN /\ pc' = "failed"
            /\ error' = Raised("ValueError: Instruction template is required")
            /\ UNCHANGED row_idx
       ELSE IF validate_gold_field_requirement(template.few_shot, template.gold)
       THEN /\ pc' = "failed"
            /\ error' = Raised("ValueError: Gold field is required")
            /\ UNCHANGED row_idx
       ELSE /\ pc' = "row"
            /\ row_idx' = 1
            /\ error' = error
    /\ UNCHANGED <<inputs, generatorState, field_variations, combination, variations,
                   all_variations, augLog, selections, built, output, run, first>>

\* faulty variant: the budget test off by one
BudgetReachedStrict(all, max) == Len(all) > max

\* `if len(all_variations) >= self.max_variations: break`
BudgetReached(all, max) == Len(all) >= max

\* engine.py:109-116: loop head and field expansion of the next row
NextRow ==
    /\ pc = "row"
    /\ IF row_idx > Len(data.rows) \/ BudgetReached(all_variations, max_variations)
       THEN /\ pc' = "return"
            /\ UNCHANGED <<field_variations, combination, variations, augLog>>
       ELSE LET r == generate_all_field_variations(template.text,
                         template.variation_fields, row_idx - 1,
                         data.rows[row_idx], data.cols, template.gold,
                         variations_per_field)
            IN  /\ field_variations' = r.fv
                /\ augLog' = augLog \o r.log
                /\ variations' = <<>>
                /\ combination' = 1
                /\ pc' = "combine"
    /\ UNCHANGED <<inputs, generatorState, row_idx, all_variations, selections, built, output,
                   error, run, first>>

MoreCombinations ==
    /\ combination <= Len(Combinations(field_variations))
    /\ Len(variations) < max_variations

\* few_shot_handler.py:141-152: one iteration of the combination loop
BuildVariation ==
    /\ pc = "combine"
    /\ MoreCombinations
    /\ LET b == build_single_variation(
                    Combinations(field_variations)[combination],
                    field_variations, row_idx - 1, Len(variations) + 1)
           logged == IF template.few_shot.has
                     THEN Append(selections,
                            [row |-> row_idx - 1,
                             ordinal |-> Len(variations) + 1,
                             format |-> template.few_shot.format,
                             seed |-> b.sel.seed,
                             pool |-> b.sel.pool,
                             rows |-> b.sel.rows,
                             error |-> b.sel.error])
                     ELSE selections
       IN  IF b.error.kind # "none"
           THEN /\ pc' = "failed"
                /\ error' = b.error
                /\ selections' = logged
                /\ UNCHANGED <<variations, combination, built>>
           ELSE /\ variations' = Append(variations, b.variation)
                /\ built' = Append(built,
                              [ghost |-> b.ghost, variation |-> b.variation])
                /\ selections' = logged
                /\ combination' = combination + 1
                /\ UNCHANGED <<pc, error>>
    /\ UNCHANGED <<inputs, generatorState, row_idx, field_variations, all_variations, augLog,
                   output, run, first>>

\* few_shot_handler.py:154 and engine.py:134-137
RowDone ==
    /\ pc = "combine"
    /\ ~MoreCombinations
    /\ all_variations' = all_variations \o variations
    /\ IF BudgetReached(all_variations \o variations, max_variations)
       THEN pc' = "return" /\ UNCHANGED row_idx
       ELSE pc' = "row" /\ row_idx' = row_idx + 1
    /\ UNCHANGED <<inputs, generatorState, field_variations, combination, variations, augLog,
                   selections, built, output, error, run, first>>

\* engine.py:139
Return ==
    /\ pc = "return"
    /\ output' = Truncate(all_variations, max_variations)
    /\ pc' = "done"
    /\ UNCHANGED <<inputs, generatorState, rowState, error, run, first>>

Next == Validate \/ Setup \/ NextRow \/ BuildVariation \/ RowDone \/ Return

Spec == Init /\ [][Next]_vars

\* a second call of generate_variations on the same engine with the same
\* arguments, after the first has returned or raised
Rerun ==
    /\ run = 1
    /\ pc \in {"done", "failed"}
    /\ first' = [output |-> output, error |-> error, done |-> TRUE]
    /\ run' = 2
    /\ pc' = "validate"
    /\ row_idx' = 0
    /\ field_variations' = <<>>
    /\ combination' = 0
    /\ variations' = <<>>
    /\ all_variations' = <<>>
    /\ output' = <<>>
    /\ error' = NoError
    /\ augLog' = <<>>
    /\ selections' = <<>>
    /\ built' = <<>>
    /\ UNCHANGED <<inputs, generatorState>>

NextTwin == Next \/ Rerun

SpecTwin == Init /\ [][NextTwin]_vars

(***************************************************************************)
(* MultipleChoiceAugmenter and the process-wide generator of module        *)
(* random.  The generator has RngStates states; a draw moves it to the     *)
(* next one, and random.shuffle leaves a list in the order the state it    *)
(* is called in determines.                                                *)
(***************************************************************************)
Seeds == {1, FIXED_SEED}

\* the orders of a list of three options
Orders ==
    <<<<1, 2, 3>>, <<1, 3, 2>>, <<2, 1, 3>>, <<2, 3, 1>>, <<3, 1, 2>>, <<3, 2, 1>>>>

\* one use of the generator
Advance(state) == (state + 1) % RngStates

\* random.shuffle(shuffled_indices) called in the given state
Shuffled(state) == Orders[(state % Len(Orders)) + 1]

\* a prompt: the question followed by the options in some order, marked in
\* some enumeration style
Rendered(style, order) == [style |-> style, order |-> order]

\* `for _ in range(min(2, self.n_augments))`: shuffle, skip an unchanged
\* order, else append the prompt in the new order
RECURSIVE ShuffleRounds(_, _, _)
ShuffleRounds(k, state, acc) ==
    IF k = 0 THEN [state |-> state, variations |-> acc]
    ELSE LET order == Shuffled(state)
         IN  ShuffleRounds(k - 1, Advance(state),
                 IF order = Orders[1] THEN acc
                 ELSE Append(acc, Rendered(1, order)))

\* MultipleChoiceAugmenter.augment for a question in the first of `styles`
\* enumeration styles: the prompt, one variation per other style, then the
\* reordered ones; duplicates removed, the first n_augments kept
MultipleChoiceAugment(state, styles, n_augments) ==
    LET start == <<Rendered(1, Orders[1])>>
                 \o [i \in 1..(styles - 1) |-> Rendered(i + 1, Orders[1])]
        r == ShuffleRounds(IF n_augments < 2 THEN n_augments ELSE 2,
                           state, start)
    IN  [state |-> r.state,
         out |-> Take(Dedup(r.variations, <<>>), n_augments)]

engineState ==
    <<inputs, rowState, pc, output, error, run, first>>

\* a process that was started with random.seed(seed) and has called nothing
InitChoice ==
    /\ template = Template(T_qoa, V_none, NoGold, NoFewShot)
    /\ data = Dataset(1, <<"q", "o", "a">>, "int", "none")
    /\ augOut = DefaultOracle
    /\ variations_per_field = 1
    /\ max_variations = 0
    /\ run = 1
    /\ first = NoOutcome
    /\ RunStart
    /\ \E seed \in Seeds :
          /\ process = [id |-> 1, seed |-> seed]
          /\ rng = Seeded(seed)
    /\ calls = <<>>

\* the invocations of the current process
OwnCalls == SelectSeq(calls, LAMBDA c : c.process = process.id)

\* some other code of the process uses the generator
Draw ==
    /\ rng' = Advance(rng)
    /\ UNCHANGED <<engineState, process, calls>>

\* multiple_choice_augmenter.py:27-88: one invocation of augment
Augment ==
    /\ Len(calls) < MaxCalls
    /\ \E styles \in 1..2, n_augments \in {1, 3} :
          LET ordinal == Len(OwnCalls) + 1
              r == MultipleChoiceAugment(rng, styles, n_augments)
          IN  /\ rng' = r.state
              /\ calls' = Append(calls,
                     [process |-> process.id, seed |-> process.seed,
                      ordinal |-> ordinal, styles |-> styles,
                      n_augments |-> n_augments, before |-> rng,
                      out |-> r.out])
    /\ UNCHANGED <<engineState, process>>

\* the program is started again with the same seed
NewProcess ==
    /\ process.id = 1
    /\ process' = [id |-> 2, seed |-> process.seed]
    /\ rng' = Seeded(process.seed)
    /\ UNCHANGED <<engineState, calls>>

NextChoice == Draw \/ Augment \/ NewProcess

SpecChoice == InitChoice /\ [][NextChoice]_vars

(***************************************************************************)
(* Properties.                                                             *)
(***************************************************************************)
Finished == pc \in {"done", "failed"}

C2_Budget == pc = "done" => Len(output) <= max_variations

C2_Witness ==
    /\ pc = "done"
    /\ Len(data.rows) >= 2
    /\ Len(all_variations) > max_variations
    /\ Len(output) = max_variations
    /\ max_variations > 0

\* the few-shot examples of the i-th built variation
ExamplesOf(i) == built[i].ghost.examples

\* C3: no few-shot example of a variation emitted for row R is built from
\* row R itself, under every format and split setting, also when R's own
\* split differs from the configured split.
C3_NoSelfExample ==
    /\ \A i \in 1..Len(built) : \A k \in 1..Len(ExamplesOf(i)) :
          ExamplesOf(i)[k].row # built[i].variation.original_row_index
    /\ \A j \in 1..Len(selections) : \A k \in 1..Len(selections[j].rows) :
          selections[j].rows[k] - 1 # selections[j].row

C3_Witness ==
    \E i \in 1..Len(built) :
        /\ ExamplesOf(i) # <<>>
        /\ HasSplitColumn
        /\ template.few_shot.split = "train"
        /\ data.rows[built[i].ghost.row + 1]["split"].text = <<"test">>

\* C4: for every emitted variation the row-values map that fills the main
\* question has no entry for the gold column, and the main question holds
\* no gold placeholder; also when the gold column has an augmenter list.
C4_NoGoldInRowValues ==
    \A i \in 1..Len(built) :
        template.gold.has =>
            /\ ~HasKey(built[i].ghost.row_values, template.gold.field)
            /\ ~Contains(built[i].ghost.main_input,
                         Placeholder(template.gold.field))

\* the variant chosen for field f in the i-th built variation
ChosenVariant(i, f) == Get(built[i].ghost.chosen, f)

\* the i-th built variation carries a variant emitted by shuffle for the
\* options field of an index gold
ShuffledVariantChosen(i) ==
    /\ template.gold.has
    /\ template.gold.type = "index"
    /\ HasKey(built[i].ghost.chosen, template.gold.options_field)
    /\ ChosenVariant(i, template.gold.options_field).gold_update.isInt

\* C5: for every emitted variation whose options-field value is a shuffled
\* variant, the merged gold_updates[gold_field] is an integer, lies in
\* 0..(number of options - 1) and is the position in the shuffled list of
\* the option that stood at the row's original gold index, whatever the
\* column order of the row.
C5_ShuffleGoldIndex ==
    \A i \in 1..Len(built) :
        ShuffledVariantChosen(i) =>
            LET v == built[i].variation
                row == data.rows[v.original_row_index + 1]
                g == template.gold
                shuffled == Split(ChosenVariant(i, g.options_field).data)
                original == Split(format_field_value(row[g.options_field]))
                gu == v.gold_updates
            IN  /\ gu.has
                /\ gu.field = g.field
                /\ gu.isInt
                /\ IntOf(gu.text) >= 0
                /\ IntOf(gu.text) < Len(shuffled)
                /\ shuffled[IntOf(gu.text) + 1]
                      = original[IntOf(row[g.field].text) + 1]

RECURSIVE ProdFrom(_, _)
ProdFrom(lens, k) == IF k > Len(lens) THEN 1 ELSE lens[k] * ProdFrom(lens, k + 1)

\* the n-th tuple (n = 1, 2, ...) of the product in lexicographic order
NthTuple(lens, n) ==
    [k \in 1..Len(lens) |-> (((n - 1) \div ProdFrom(lens, k + 1)) % lens[k]) + 1]

\* C6: the returned variations are ordered by (row position, variation
\* ordinal); within a row variation_count is 1, 2, ..., n and the n-th
\* variation is the n-th tuple of the Cartesian product of the per-field
\* variant lists in lexicographic order over the field order.
C6_Order ==
    /\ \A i \in 1..Len(built) :
          LET v == built[i].variation
          IN  IF i = 1 \/ built[i - 1].variation.original_row_index
                          # v.original_row_index
              THEN /\ v.variation_count = 1
                   /\ i > 1 => built[i - 1].variation.original_row_index
                               < v.original_row_index
              ELSE v.variation_count = built[i - 1].variation.variation_count + 1
    /\ pc = "combine" =>
          \A i \in 1..Len(built) :
             built[i].ghost.row = row_idx - 1 =>
                LET v == built[i].variation
                    t == NthTuple([k \in 1..Len(field_variations) |->
                                      Len(field_variations[k].value)],
                                  v.variation_count)
                IN  \A k \in 1..Len(field_variations) :
                       v.field_values[k] =
                          Pair(field_variations[k].name,
                               field_variations[k].value[t[k]].data)
    /\ pc = "done" =>
          /\ Len(output) <= Len(built)
          /\ \A i \in 1..Len(output) : output[i] = built[i].variation

C6_Witness ==
    /\ pc = "done"
    /\ Len(output) >= 4
    /\ output[3].variation_count = 3
    /\ built[3].ghost.combination = <<1, 2, 1>>
    /\ output[Len(output)].original_row_index = 1

\* size of the few-shot pool of the row labelled `label`
PoolSize(label, split) ==
    Cardinality({i \in 1..Len(data.rows) :
                    /\ i # label + 1
                    /\ split \in {"train", "test"} =>
                          data.rows[i]["split"].text = <<split>>})

\* C7: for a pool of size p, selection with count = p succeeds and selection
\* with count > p fails with the insufficient-few-shot-data error carrying
\* the requested count, the available count and the split, and no variation
\* is emitted for that row.
C7_Sufficiency ==
    \A j \in 1..Len(selections) :
        LET sl == selections[j]
            c == template.few_shot.count
            sp == template.few_shot.split
            p == PoolSize(sl.row, sp)
        IN  sl.error.kind # "KeyError" =>
              /\ c <= p => sl.error = NoError /\ Len(sl.rows) = c
              /\ c > p =>
                   /\ sl.error = FewShotDataInsufficientError(c, p, sp)
                   /\ pc = "failed"
                   /\ error = sl.error
                   /\ output = <<>>
                   /\ \A i \in 1..Len(built) : built[i].ghost.row # sl.row

C7_Witness ==
    /\ pc = "failed"
    /\ error.kind = "FewShotDataInsufficientError"
    /\ error.requested = error.available + 1
    /\ \E j \in 1..Len(selections) :
          /\ selections[j].error = NoError
          /\ selections[j].pool = template.few_shot.count

\* C8: if template validation reports any error, generate fails before any
\* row is processed: no augmenter is invoked, no few-shot selection is made
\* and no variation is produced.
C8_ValidationFirst ==
    validate_template(template) # {} =>
        /\ pc \in {"validate", "failed"}
        /\ row_idx = 0
        /\ augLog = <<>>
        /\ selections = <<>>
        /\ built = <<>>
        /\ output = <<>>

C8_Witness ==
    /\ pc = "failed"
    /\ validate_template(template) # {}
    /\ error = Raised("ValueError: Invalid template")

\* the template lists an augmenter name outside the registry
UnregisteredListed ==
    \E k \in 1..Len(template.variation_fields) :
        \E j \in 1..Len(template.variation_fields[k].value) :
            template.variation_fields[k].value[j] \notin VARIATION_TYPE_TO_AUGMENTER

\* C9: validation rejects every template that lists an augmenter name
\* outside the registry, so no augmenter ever runs on behalf of an
\* unregistered name.
C9_UnregisteredRejected ==
    /\ UnregisteredListed => pc \in {"validate", "failed"}
    /\ \A j \in 1..Len(augLog) : augLog[j].name \in VARIATION_TYPE_TO_AUGMENTER

\* the field names whose augmenter list holds shuffle
ShuffleFields ==
    {template.variation_fields[k].name :
        k \in {j \in 1..Len(template.variation_fields) :
                  "shuffle" \in SeqToSet(template.variation_fields[j].value)}}

\* the row labelled `label` has an integer index gold for field f
IndexGoldFor(label, f) ==
    /\ template.gold.has
    /\ template.gold.type = "index"
    /\ template.gold.options_field = f
    /\ template.gold.field \in SeqToSet(data.cols)
    /\ ~data.rows[label + 1][template.gold.field].list
    /\ IsIntText(data.rows[label + 1][template.gold.field].text)

GoldUsable(label) ==
    /\ template.gold.has
    /\ template.gold.field \in SeqToSet(data.cols)
    /\ template.gold.type = "index" =>
          /\ ~data.rows[label + 1][template.gold.field].list
          /\ IsIntText(data.rows[label + 1][template.gold.field].text)

Fails(variation_type) ==
    /\ variation_type # "shuffle"
    /\ LET o == IF AugmenterClass(variation_type) = "TextSurfaceAugmenter"
                THEN augOut.surface ELSE augOut.paraphrase
       IN  o.raises \/ o.sufs = <<>>

\* the value field f has before any augmenter acts, for the row labelled l
OriginalOf(f, l) ==
    IF f = "instruction" THEN template.text
    ELSE format_field_value(data.rows[l + 1][f])

\* the fields of the template one of whose augmenters fails
FailingFields ==
    {k \in 1..Len(template.variation_fields) :
        /\ template.variation_fields[k].name \in
              {"instruction"} \cup SeqToSet(data.cols)
        /\ \E j \in 1..Len(template.variation_fields[k].value) :
              Fails(template.variation_fields[k].value[j])}

\* C12: if an augmenter invocation raises or returns nothing, for a data
\* field or for the instruction, the run is not aborted: every augmenter of
\* the field's list is still invoked, the field's variant list still
\* contains the original value, and the run does not fail; when the only
\* augmenter of the instruction fails, every variation uses the original
\* instruction.
C12_AugmenterFailureNonFatal ==
    /\ pc = "combine" =>
          \A k \in FailingFields :
             LET f == template.variation_fields[k].name
                 types == template.variation_fields[k].value
                 list == Get(field_variations, f)
             IN  /\ \A j \in 1..Len(types) :
                       types[j] # "shuffle" =>
                          \E a \in 1..Len(augLog) :
                             /\ augLog[a].row = row_idx - 1
                             /\ augLog[a].field = f
                             /\ augLog[a].name = types[j]
                 /\ \E i \in 1..Len(list) :
                       list[i].data = OriginalOf(f, row_idx - 1)
    /\ (FailingFields # {} /\ validate_template(template) = {}
        /\ ~template.few_shot.has) => pc # "failed"
    /\ \A k \in FailingFields :
          (/\ template.variation_fields[k].name = "instruction"
           /\ Len(template.variation_fields[k].value) = 1) =>
              \A i \in 1..Len(built) :
                 Get(built[i].variation.field_values, "instruction")
                    = template.text

C12_Witness ==
    /\ pc = "done"
    /\ template.variation_fields = V_two
    /\ augOut.paraphrase.raises
    /\ ~augOut.surface.raises
    /\ Len(output) >= 2
    /\ Len(augLog) >= 4

\* the gold accessor cannot be evaluated on the rows: a gold is configured
\* and its column is not in the data
GoldNotEvaluable ==
    template.gold.has /\ template.gold.field \notin SeqToSet(data.cols)

\* C13: if the gold accessor cannot be evaluated on a row when the engine
\* needs the gold value to prepare a shuffle, the run aborts with the
\* gold-extraction error and no variation of the row is built without the
\* shuffle.
C13_GoldExtractionAborts ==
    (GoldNotEvaluable /\ ShuffleFields # {}
     /\ validate_template(template) = {}) =>
        /\ built = <<>>
        /\ pc = "failed" => error = Raised("GoldFieldExtractionError")

\* C14: with max_variations = 0 and a valid template, generate returns the
\* empty list without invoking any augmenter or making any few-shot
\* selection.
C14_ZeroBudget ==
    (/\ max_variations = 0
     /\ validate_template(template) = {}
     /\ ~validate_gold_field_requirement(template.few_shot, template.gold)) =>
        /\ augLog = <<>>
        /\ selections = <<>>
        /\ built = <<>>
        /\ all_variations = <<>>
        /\ output = <<>>
        /\ pc # "failed"

C14_Witness ==
    /\ max_variations = 0
    /\ pc = "done"
    /\ output = <<>>
    /\ template.variation_fields = V_two
    /\ ~augOut.surface.raises

\* every augmenter list of the template holds one text augmenter, and that
\* augmenter returns only the original value
OnlyOriginalReturned ==
    \A k \in 1..Len(template.variation_fields) :
        LET types == template.variation_fields[k].value
            o == IF AugmenterClass(types[1]) = "TextSurfaceAugmenter"
                 THEN augOut.surface ELSE augOut.paraphrase
        IN  /\ Len(types) = 1
            /\ types[1] # "shuffle"
            /\ ~o.raises
            /\ o.sufs = <<e>>

\* C15: with variations_per_field = 1 and a budget of at least one
\* variation per row, a run that returns yields exactly one variation for
\* every row, both when no field has an augmenter and when a field has one
\* augmenter that returns only the original value.
C15_OnePerRow ==
    (/\ variations_per_field = 1
     /\ max_variations >= Len(data.rows)
     /\ OnlyOriginalReturned
     /\ pc = "done") =>
        /\ Len(output) = Len(data.rows)
        /\ \A i \in 1..Len(output) :
              /\ output[i].original_row_index = i - 1
              /\ output[i].variation_count = 1

C15_Witness ==
    /\ pc = "done"
    /\ variations_per_field = 1
    /\ template.variation_fields = V_instr
    /\ OnlyOriginalReturned
    /\ Len(data.rows) = 3
    /\ Len(output) = 3

\* the few-shot selection made for the i-th built variation
SelectionOf(i) ==
    selections[CHOOSE j \in 1..Len(selections) :
                  /\ selections[j].row = built[i].ghost.row
                  /\ selections[j].ordinal = built[i].variation.variation_count]

\* C16 (as stated): for every emitted variation with k few-shot examples the
\* conversation is exactly k (user, assistant) pairs followed by one final
\* user message holding the main question.
C16_FinalUserMessage ==
    \A i \in 1..Len(built) :
        LET c == built[i].variation.conversation
            k == Len(ExamplesOf(i))
        IN  /\ Len(c) = 2 * k + 1
            /\ c[Len(c)] = Message("user", built[i].ghost.main_input)

\* C16 (amended): the conversation holds no system message; it is one
\* (user, assistant) pair per few-shot example the selector returned, in
\* selection order, the user message holding the example input and the
\* assistant message its gold output, followed by one final user message
\* holding the main question when the main question is not empty, and by
\* nothing when it is empty.
C16_Conversation ==
    \A i \in 1..Len(built) :
        LET c == built[i].variation.conversation
            ex == ExamplesOf(i)
            k == Len(ex)
            m == built[i].ghost.main_input
        IN  /\ Len(c) = 2 * k + (IF m = <<>> THEN 0 ELSE 1)
            /\ \A n \in 1..k :
                  /\ c[2 * n - 1] = Message("user", ex[n].input)
                  /\ c[2 * n] = Message("assistant", ex[n].output)
            /\ m # <<>> => c[Len(c)] = Message("user", m)
            /\ \A n \in 1..Len(c) : c[n].role # "system"
            /\ k > 0 =>
                  \A n \in 1..k :
                     /\ IndexOf(SelectionOf(i).rows, ex[n].row + 1) > 0
                     /\ n > 1 => IndexOf(SelectionOf(i).rows, ex[n - 1].row + 1)
                                 < IndexOf(SelectionOf(i).rows, ex[n].row + 1)

C16_Witness ==
    /\ Len(built) >= 2
    /\ Len(ExamplesOf(1)) = 1
    /\ Len(built[1].variation.conversation) = 3
    /\ built[2].ghost.main_input = <<>>
    /\ Len(ExamplesOf(2)) = 2
    /\ Len(built[2].variation.conversation) = 4

\* the four format tokens of the closed enumeration
FormatTokens ==
    {"shared_ordered_first_n", "shared_ordered_random_n",
     "shared_unordered_random_n", "random_per_row"}

\* C17: a few_shot configuration whose format is not one of the four tokens
\* is rejected rather than used for selection: no few-shot rows are
\* selected with it and no variation is built from it.
C17_FormatClosed ==
    (template.few_shot.has /\ template.few_shot.format \notin FormatTokens) =>
        /\ \A j \in 1..Len(selections) : selections[j].rows = <<>>
        /\ built = <<>>

\* the few-shot pool of the row labelled `label`, as a set of positions
PoolRows(label) ==
    {i \in 1..Len(data.rows) :
        /\ i # label + 1
        /\ template.few_shot.split \in {"train", "test"} =>
              data.rows[i]["split"].text = <<template.few_shot.split>>}

\* the selections of this run made under one of the two shared ordered
\* formats
SharedOrdered ==
    {j \in 1..Len(selections) :
        /\ selections[j].error = NoError
        /\ selections[j].format \in
              {"shared_ordered_first_n", "shared_ordered_random_n"}}

VaryingDataFields(v) ==
    {k \in 1..Len(v.field_values) :
        /\ v.field_values[k].name # "instruction"
        /\ v.field_values[k].name \in SeqToSet(data.cols)
        /\ ~(template.gold.has /\ v.field_values[k].name = template.gold.field)}

\* C19: in every emitted variation the value recorded in field_values for
\* a varying non-gold data field occurs literally in the prompt, whatever
\* the value is, a value holding another column's placeholder included.
C19_FieldValueInPrompt ==
    pc = "done" =>
        \A i \in 1..Len(output) :
            \A k \in VaryingDataFields(output[i]) :
                Contains(output[i].prompt, output[i].field_values[k].value)

\* the built variations whose few-shot selection succeeded
WithSelection ==
    {i \in 1..Len(built) :
        /\ template.few_shot.has
        /\ SelectionOf(i).error = NoError}

\* the prompt-format variant of the i-th built variation once the gold
\* placeholder is stripped from it
StrippedVariant(i) ==
    Strip(Replace(Get(built[i].variation.field_values, "instruction"),
                  Placeholder(template.gold.field), <<>>))

\* the selected rows of the i-th built variation whose rendered input is
\* not empty, in selection order
RowsWithInput(i) ==
    LET HasInput(pos) ==
            fill_template_placeholders(
                StrippedVariant(i),
                InputValues(data.cols, data.rows[pos], template.gold)) # <<>>
    IN  SelectSeq(SelectionOf(i).rows, HasInput)

\* C20 (as stated): whenever few-shot selection succeeds with count k the
\* selector returns exactly k pairs, one per selected row in selection
\* order, for every prompt-format variant.
C20_ExactlyK ==
    \A i \in WithSelection :
        /\ Len(ExamplesOf(i)) = template.few_shot.count
        /\ \A n \in 1..Len(ExamplesOf(i)) :
              ExamplesOf(i)[n].row + 1 = SelectionOf(i).rows[n]

\* C20 (amended): whenever few-shot selection succeeds with count k, k rows
\* are selected and the selector returns one pair per selected row whose
\* rendered input is not empty, in selection order: at most k pairs, none
\* of them with an empty input, and no pair at all for a prompt-format
\* variant that is empty once the gold placeholder is stripped.
C20_OnePerNonEmptyInput ==
    \A i \in WithSelection :
        LET ex == ExamplesOf(i)
            kept == RowsWithInput(i)
        IN  /\ Len(SelectionOf(i).rows) = template.few_shot.count
            /\ Len(ex) <= template.few_shot.count
            /\ Len(ex) = Len(kept)
            /\ \A n \in 1..Len(ex) :
                  /\ ex[n].row + 1 = kept[n]
                  /\ ex[n].input # <<>>
            /\ StrippedVariant(i) = <<>> => ex = <<>>

C20_Witness ==
    \E i \in WithSelection :
        /\ StrippedVariant(i) = <<>>
        /\ Len(SelectionOf(i).rows) = 2
        /\ ExamplesOf(i) = <<>>

\* C21: within the variations emitted for one row no two variations have
\* the same prompt together with the same gold_updates, for every template,
\* one whose varying field is not referenced by a placeholder included.
C21_PerRowDistinct ==
    pc = "done" =>
        \A i, j \in 1..Len(output) :
            (/\ i # j
             /\ output[i].original_row_index = output[j].original_row_index)
            => ~(/\ output[i].prompt = output[j].prompt
                 /\ output[i].gold_updates = output[j].gold_updates)

\* the variant list handed to the combinator for the k-th varying field
VariantList(k) == field_variations[k].value

\* what the one surface augmenter of a field returned for the text t, the
\* empty list when it raised
SurfaceReturned(t) ==
    IF augOut.surface.raises THEN <<>>
    ELSE [i \in 1..Len(augOut.surface.sufs) |-> t \o augOut.surface.sufs[i]]

\* the varying fields whose only augmenter is surface, as positions
SurfaceOnly ==
    {k \in 1..Len(field_variations) :
        /\ HasKey(template.variation_fields, field_variations[k].name)
        /\ Get(template.variation_fields, field_variations[k].name) = <<"surface">>
        /\ field_variations[k].name \in SeqToSet(data.cols) \cup {"instruction"}
        /\ ~(template.gold.has /\ field_variations[k].name = template.gold.field)}

\* the candidates of a surface-only field in the order they were produced:
\* the original and then the augmenter's values for a data field, the
\* augmenter's first variations_per_field values for the instruction
Candidates(k) ==
    LET name == field_variations[k].name
    IN  IF name = "instruction"
        THEN Take(SurfaceReturned(template.text), variations_per_field)
        ELSE LET t == format_field_value(data.rows[row_idx][name])
             IN  <<t>> \o SurfaceReturned(t)

OriginalValue(k) ==
    IF field_variations[k].name = "instruction" THEN template.text
    ELSE format_field_value(data.rows[row_idx][field_variations[k].name])

\* C23: the first element of every per-field variant list, for data fields
\* and for the instruction, is the original value, whatever list the
\* augmenters return.
C23_OriginalFirst ==
    pc = "combine" =>
        \A k \in 1..Len(field_variations) :
            field_variations[k].name \in SeqToSet(data.cols) \cup {"instruction"}
            => /\ VariantList(k) # <<>>
               /\ VariantList(k)[1].data = OriginalValue(k)

\* the columns the template references, by placeholder or by augmenter
\* list, that the dataset does not have
AbsentReferenced ==
    {c \in {"q", "o", "a"} :
        /\ c \notin SeqToSet(data.cols)
        /\ \/ Contains(template.text, Placeholder(c))
           \/ HasKey(template.variation_fields, c)}

\* C24: when the template references a column that is absent from the row,
\* generation continues and in every emitted prompt the placeholder of
\* that column is replaced by the empty string: no literal placeholder
\* text of that column remains.
C24_AbsentColumnBlank ==
    AbsentReferenced # {} =>
        /\ pc # "failed"
        /\ \A i \in 1..Len(output) : \A c \in AbsentReferenced :
              ~Contains(output[i].prompt, Placeholder(c))

\* C25: while a row is combined no further variation is built and no
\* further few-shot selection is run once the variations emitted for
\* earlier rows plus those built for this row have reached max_variations;
\* so a run never builds more than max_variations variations nor runs
\* more than max_variations selections.
C25_StopAtBudget ==
    /\ Len(built) <= max_variations
    /\ Len(selections) <= max_variations

\* the successful selections of this run made under
\* shared_unordered_random_n
SharedUnordered ==
    {j \in 1..Len(selections) :
        /\ selections[j].error = NoError
        /\ selections[j].format = "shared_unordered_random_n"}

\* what shared_ordered_random_n selects for the pool and count of the j-th
\* selection
OrderedCounterpart(j) ==
    SelectRows([template.few_shot EXCEPT !.format = "shared_ordered_random_n"],
               selections[j].row, selections[j].ordinal).rows

\* C26: for the same pool and count the set of rows selected under
\* shared_unordered_random_n equals the set selected under
\* shared_ordered_random_n; the two lists differ at most in their order.
C26_SameSample ==
    \A j \in SharedUnordered :
        /\ SeqToSet(selections[j].rows) = SeqToSet(OrderedCounterpart(j))
        /\ Len(selections[j].rows) = Len(OrderedCounterpart(j))

C26_Witness ==
    \E j \in SharedUnordered :
        /\ Len(selections[j].rows) = 2
        /\ selections[j].pool > 2
        /\ selections[j].rows # OrderedCounterpart(j)

\* the successful selections of this run that draw with a per-variation
\* seed: random_per_row and the reshuffle of shared_unordered_random_n
SeededSelections ==
    {j \in 1..Len(selections) :
        /\ selections[j].error = NoError
        /\ selections[j].format \in {"random_per_row", "shared_unordered_random_n"}}

\* C27: under random_per_row, and for the reshuffle of
\* shared_unordered_random_n, the seed of the selection made for the n-th
\* variation of a row is derived from the row and from n: two variations
\* of one row with different ordinals are selected with different seeds.
C27_SeedPerVariation ==
    \A j1, j2 \in SeededSelections :
        (/\ selections[j1].row = selections[j2].row
         /\ selections[j1].ordinal # selections[j2].ordinal)
        => selections[j1].seed # selections[j2].seed

\* the braces of a text are balanced: no prefix has more closing than
\* opening braces, and the whole text has as many of the one as of the other
Balanced(text) ==
    /\ \A n \in 0..Len(text) :
          Count(SubSeq(text, 1, n), "}") <= Count(SubSeq(text, 1, n), "{")
    /\ Count(text, "{") = Count(text, "}")

\* C28: validation reports a brace error for every prompt_format text whose
\* braces are not balanced, a text with equally many opening and closing
\* braces included; so once validation has run on such a text the call has
\* failed with the invalid-template error.
C28_UnbalancedReported ==
    (~Balanced(template.text) /\ pc # "validate") =>
        /\ "Mismatched brackets in template" \in validate_template(template)
        /\ error = Raised("ValueError: Invalid template")

\* the removal of the gold placeholder from a filled text, as
\* _create_main_input applies it: replace by the empty string, then strip
RemoveGold(t) ==
    IF template.gold.has
    THEN Strip(Replace(t, Placeholder(template.gold.field), <<>>))
    ELSE Strip(t)

\* C29: removing the gold placeholder from a main question is idempotent:
\* the main question of every built variation, which is the result of one
\* removal, is left unchanged by a second removal.
C29_RemovalIdempotent ==
    \A i \in 1..Len(built) :
        RemoveGold(built[i].ghost.main_input) = built[i].ghost.main_input

\* C30: every augmenter invocation that uses randomness draws from a
\* sub-seed derived from the global seed and the invocation's own
\* coordinates, not from the process-wide generator: two invocations with
\* the same seed, ordinal and arguments return the same list, however
\* many draws were made before them in their process.
C30_IndependentOfEarlierDraws ==
    \A a, b \in 1..Len(calls) :
        (/\ calls[a].seed = calls[b].seed
         /\ calls[a].ordinal = calls[b].ordinal
         /\ calls[a].styles = calls[b].styles
         /\ calls[a].n_augments = calls[b].n_augments)
        => calls[a].out = calls[b].out

====
